---- MODULE Spec2Model ----
(***************************************************************************)
(* A model of the Avito parser's acquisition pipeline:                     *)
(*   AvitoHttpClient.fetch      (infrastructure/http_client.py)            *)
(*   the filter chain           (core/filters.py)                          *)
(*   AvitoParse._process_url    (application/parser_cls.py)                *)
(*   ParseLinksUseCase.run      (application/use_cases.py)                 *)
(***************************************************************************)
EXTENDS Integers, Sequences, FiniteSets, TLC

(***************************************************************************)
(* Bounds of the model.                                                    *)
(***************************************************************************)
\* largest retry budget handed to fetch
MaxRetries == 3
\* largest number of ads in one batch
MaxBatch == 3
\* pages per url of a run (config.count)
MaxPages == 2
\* number of fetch calls the fetch harness makes
MaxCalls == 2

VARIABLES
    \* ---- AvitoHttpClient ------------------------------------------------
    config,              \* AvitoConfig (immutable during a run)
    stop_event,          \* "None" (no event object), "clear" or "set"
    session,             \* generation of self.session (requests.Session())
    cookies,             \* self.cookies
    user_agent,          \* self.headers["user-agent"]
    save_count,          \* number of save_cookies() writes of cookies.json
    good_request_count,
    bad_request_count,
    \* ---- one fetch call -------------------------------------------------
    fetch_pc,            \* "idle", "loop", "done" (returned), "raised"
    attempt,             \* loop variable of fetch
    retries,             \* argument of fetch
    fetch_ret,           \* value returned by fetch
    fetch_exc,           \* exception that left fetch ("none" if none)
    requests_issued,     \* session.get calls of this call
    n429,                \* 429 responses received in this call
    n5xx,                \* responses with status >= 500 in this call
    refresh_calls,       \* _refresh_cookies invocations of this call
    change_ip_calls,     \* _change_ip invocations of this call
    last,                \* what the last loop iteration of fetch did
    calls,               \* fetch calls started so far
    \* ---- one batch of ads and the filter chain --------------------------
    heap,                \* the Item objects of the batch, by reference
    viewed,              \* the dedup store: (id, price) pairs marked seen
    f_in,                \* the batch handed to apply_filters (references)
    f_out,               \* the batch apply_filters returned
    f_log,               \* one entry per filter that apply_filters invoked
    f_pc,                \* "idle", "ready" (batch at hand) or "done"
    \* ---- ParseLinksUseCase.run / AvitoParse._process_url ----------------
    run_pc,              \* position of the run ("off": no run)
    url_index,           \* index of the url at hand in config.urls
    page_index,          \* loop variable of _process_url
    current_url,         \* url the next page is fetched from
    ads_in_link,         \* ads collected for the url at hand
    xlsx_handler,        \* the export sink: "None" or the file it writes
    view_idx,            \* position of parse_views in the filtered ads
    trace                \* what the run did, in order

fetchVars == <<config, stop_event, session, cookies, user_agent, save_count,
               good_request_count, bad_request_count, fetch_pc, attempt,
               retries, fetch_ret, fetch_exc, requests_issued, n429, n5xx,
               refresh_calls, change_ip_calls, last, calls>>

filterVars == <<heap, viewed, f_in, f_out, f_log, f_pc>>

runVars == <<run_pc, url_index, page_index, current_url, ads_in_link,
             xlsx_handler, view_idx, trace>>

vars == <<fetchVars, filterVars, runVars>>

(***************************************************************************)
(* Values.                                                                 *)
(***************************************************************************)
\* Python's None as a returned body, and a returned response.text
Absent == [some |-> FALSE, status |-> 0, text |-> 0]
Body(status, text) == [some |-> TRUE, status |-> status, text |-> text]

\* what one iteration of fetch's loop did (nothing yet)
NoStep == [kind |-> "none", status |-> 0, attempt |-> 0, refreshed |-> FALSE,
           remint_ok |-> FALSE, rotated |-> FALSE]

\* a listing url: its index in config.urls and its query parameter p
\* (0: the url carries no p)
NoUrl == [u |-> 0, p |-> 0]
Url(u, p) == [u |-> u, p |-> p]

\* HTTP statuses the upstream answers with; NetErr is a network I/O error
\* raised by session.get (curl_cffi raises requests.RequestsError)
NetErr == 0
Statuses == {200, 302, 403, 404, 429, 500}
Outcomes == Statuses \cup {NetErr}

\* what get_cookies (Playwright) can do: raise, return no cookies, or
\* return a fresh (cookies, user_agent) pair
MintOutcomes == {"raise", "empty", "m1", "m2"}
\* what the change-ip endpoint can do
IpOutcomes == {"200", "non200", "raise"}

\* Exception classes met in the code; all derive from Exception
ExcClasses == {"RequestsError", "ValueError", "Exception", "AttributeError",
               "TypeError", "OverflowError"}

(***************************************************************************)
(* Items (core/models.py is not part of the sources: the fields are those  *)
(* the filters read).  Strings are sequences of one-character strings.     *)
(***************************************************************************)
\* ad.priceDetailed: None, or an object whose value may be None
NoPriceDetailed == [present |-> FALSE, has_value |-> FALSE, value |-> 0]
PriceNoValue == [present |-> TRUE, has_value |-> FALSE, value |-> 0]
Price(v) == [present |-> TRUE, has_value |-> TRUE, value |-> v]

\* ad.geo: None, or an object with formattedAddress
NoGeo == [present |-> FALSE, formattedAddress |-> <<>>]
Geo(a) == [present |-> TRUE, formattedAddress |-> a]

\* ad.iva: None, or a dict whose "DateInfoStep" steps carry payload["vas"],
\* a list of titles; a step whose payload is not a dict is malformed
NoIva == [present |-> FALSE, steps |-> <<>>]
Iva(steps) == [present |-> TRUE, steps |-> steps]
Step(titles) == [malformed |-> FALSE, vas |-> titles]
BadStep == [malformed |-> TRUE, vas |-> <<>>]

\* "now" of _is_recent, in milliseconds (line 40), and the largest
\* timestamp datetime.utcfromtimestamp accepts (line 41), both scaled down
NowMs == 100000
MaxTimestampMs == 1000000

Pool == <<
    [id |-> 1, priceDetailed |-> Price(10), title |-> <<"A", "x">>,
     description |-> <<>>, geo |-> Geo(<<"M">>), sellerId |-> "",
     sortTimeStamp |-> 60000, isReserved |-> FALSE, iva |-> NoIva,
     isPromotion |-> FALSE, views |-> "None"],
    [id |-> 1, priceDetailed |-> Price(20), title |-> <<"a">>,
     description |-> <<"b">>, geo |-> NoGeo, sellerId |-> "s1",
     sortTimeStamp |-> 10000, isReserved |-> TRUE,
     iva |-> Iva(<<Step(<<"Promoted">>)>>), isPromotion |-> FALSE, views |-> "None"],
    [id |-> 2, priceDetailed |-> NoPriceDetailed, title |-> <<>>,
     description |-> <<"a">>, geo |-> Geo(<<"m">>), sellerId |-> "s2",
     sortTimeStamp |-> 0, isReserved |-> FALSE,
     iva |-> Iva(<<Step(<<"Other">>)>>), isPromotion |-> FALSE, views |-> "None"],
    [id |-> 2, priceDetailed |-> PriceNoValue, title |-> <<"B">>,
     description |-> <<>>, geo |-> Geo(<<"M", "o">>), sellerId |-> "",
     sortTimeStamp |-> 2000000, isReserved |-> FALSE,
     iva |-> Iva(<<BadStep>>), isPromotion |-> FALSE, views |-> "None"],
    [id |-> 3, priceDetailed |-> Price(10), title |-> <<"a", "b">>,
     description |-> <<"X">>, geo |-> Geo(<<"M">>), sellerId |-> "s1",
     sortTimeStamp |-> 60000, isReserved |-> FALSE,
     iva |-> Iva(<<Step(<<"Other">>), Step(<<"Promoted">>)>>),
     isPromotion |-> FALSE, views |-> "None"] >>

PoolItems == {Pool[i] : i \in DOMAIN Pool}

(***************************************************************************)
(* core/filters.py                                                         *)
(***************************************************************************)
\* str.lower()
LowerChar(c) ==
    CASE c = "A" -> "a" [] c = "B" -> "b" [] c = "M" -> "m"
      [] c = "X" -> "x" [] OTHER -> c
Lower(str) == [i \in 1..Len(str) |-> LowerChar(str[i])]

\* `phrase in text`
IsSubstr(phrase, text) ==
    \E i \in 0..(Len(text) - Len(phrase)) :
        SubSeq(text, i + 1, i + Len(phrase)) = phrase

\* _safe_text (lines 26-29)
safe_text(ad) == Lower(ad.title \o <<" ">> \o ad.description)

\* _is_phrase_in_ad (lines 32-34); phrases is a list of strings
is_phrase_in_ad(ad, phrases) ==
    \E k \in 1..Len(phrases) : IsSubstr(Lower(phrases[k]), safe_text(ad))

\* _is_recent (lines 37-42), when utcfromtimestamp does not raise
is_recent(timestamp_ms, max_age_seconds) ==
    IF timestamp_ms = 0 THEN FALSE
    ELSE NowMs - timestamp_ms <= max_age_seconds * 1000

\* datetime.utcfromtimestamp raises on a timestamp out of range (line 41)
is_recent_raises(timestamp_ms) == timestamp_ms > MaxTimestampMs

\* SQLiteDBHandler.record_exists(record_id, price): a NULL price matches
\* no row
record_exists(store, record_id, pd) ==
    pd.has_value /\ <<record_id, pd.value>> \in store

\* AvitoParse.is_viewed (parser_cls.py lines 129-131); it raises
\* AttributeError when ad.priceDetailed is None
is_viewed_raises(ad) == ~ad.priceDetailed.present
is_viewed(ad, store) == record_exists(store, ad.id, ad.priceDetailed)

\* the references held by a list of ads
Refs(ads) == {ads[i] : i \in 1..Len(ads)}

\* The shape shared by the filters: `try: return [ad for ad in ads if
\* keep(ad)] except Exception: return ads`.  keep holds the ads on which the
\* predicate is true, bad those on which evaluating it raises.
TryFilterReversed(ads, keep, bad) ==
    IF Refs(ads) \cap bad # {}
    THEN [out |-> ads, raised |-> TRUE]
    ELSE LET kept == SelectSeq(ads, LAMBDA r : r \in keep)
         IN  [out |-> [i \in 1..Len(kept) |-> kept[Len(kept) + 1 - i]],
              raised |-> FALSE]
TryFilterDropOnError(ads, keep, bad) ==
    IF Refs(ads) \cap bad # {}
    THEN [out |-> <<>>, raised |-> TRUE]
    ELSE [out |-> SelectSeq(ads, LAMBDA r : r \in keep), raised |-> FALSE]
TryFilter(ads, keep, bad) ==
    IF Refs(ads) \cap bad # {}
    THEN [out |-> ads, raised |-> TRUE]
    ELSE [out |-> SelectSeq(ads, LAMBDA r : r \in keep), raised |-> FALSE]

\* A filter switched off by the configuration returns ads before its try
Skipped(ads) == [out |-> ads, raised |-> FALSE]

\* lines 62-67
filter_viewed(ads, h, cfg, store) ==
    TryFilter(ads, {r \in Refs(ads) : ~is_viewed(h[r], store)},
                   {r \in Refs(ads) : is_viewed_raises(h[r])})

\* lines 70-79; comparing an int with None raises TypeError
filter_by_price_range(ads, h, cfg, store) ==
    TryFilter(ads,
        {r \in Refs(ads) : /\ h[r].priceDetailed.present
                           /\ cfg.min_price <= h[r].priceDetailed.value
                           /\ h[r].priceDetailed.value <= cfg.max_price},
        {r \in Refs(ads) : /\ h[r].priceDetailed.present
                           /\ ~h[r].priceDetailed.has_value})

\* lines 82-92
filter_by_black_keywords(ads, h, cfg, store) ==
    IF cfg.keys_word_black_list = <<>> THEN Skipped(ads)
    ELSE TryFilter(ads,
            {r \in Refs(ads) :
                ~is_phrase_in_ad(h[r], cfg.keys_word_black_list)}, {})

\* lines 95-105
filter_by_white_keywords(ads, h, cfg, store) ==
    IF cfg.keys_word_white_list = <<>> THEN Skipped(ads)
    ELSE TryFilter(ads,
            {r \in Refs(ads) :
                is_phrase_in_ad(h[r], cfg.keys_word_white_list)}, {})

\* lines 108-120
filter_by_address(ads, h, cfg, store) ==
    IF cfg.geo = <<>> THEN Skipped(ads)
    ELSE TryFilter(ads,
            {r \in Refs(ads) :
                /\ h[r].geo.present
                /\ h[r].geo.formattedAddress # <<>>
                /\ IsSubstr(cfg.geo, h[r].geo.formattedAddress)}, {})

\* lines 123-133
filter_by_seller(ads, h, cfg, store) ==
    IF cfg.seller_black_list = {} THEN Skipped(ads)
    ELSE TryFilter(ads,
            {r \in Refs(ads) :
                \/ h[r].sellerId = ""
                \/ h[r].sellerId \notin cfg.seller_black_list}, {})

\* lines 136-146
filter_by_recent_time(ads, h, cfg, store) ==
    IF cfg.max_age = 0 THEN Skipped(ads)
    ELSE TryFilter(ads,
            {r \in Refs(ads) : is_recent(h[r].sortTimeStamp, cfg.max_age)},
            {r \in Refs(ads) : /\ h[r].sortTimeStamp # 0
                               /\ is_recent_raises(h[r].sortTimeStamp)})

\* lines 149-156
filter_by_reserve(ads, h, cfg, store) ==
    IF ~cfg.ignore_reserv THEN Skipped(ads)
    ELSE TryFilter(ads, {r \in Refs(ads) : ~h[r].isReserved}, {})

\* _add_promotion_flag (lines 45-58) for one ad: the flag it leaves in
\* ad.isPromotion.  A malformed step raises inside the per-ad try and the
\* flag keeps its value.
promotion_flag(ad) ==
    IF ~ad.iva.present THEN FALSE
    ELSE IF \E k \in 1..Len(ad.iva.steps) :
              /\ ad.iva.steps[k].malformed
              /\ \A j \in 1..(k - 1) :
                    \A t \in 1..Len(ad.iva.steps[j].vas) :
                        ad.iva.steps[j].vas[t] # "Promoted"
    THEN ad.isPromotion
    ELSE \E k \in 1..Len(ad.iva.steps) :
            \E t \in 1..Len(ad.iva.steps[k].vas) :
                ad.iva.steps[k].vas[t] = "Promoted"

\* _add_promotion_flag: the heap after the flags of ads are set
add_promotion_flag(ads, h) ==
    [r \in DOMAIN h |->
        IF r \in Refs(ads)
        THEN [h[r] EXCEPT !.isPromotion = promotion_flag(h[r])]
        ELSE h[r]]

\* lines 159-167, on the heap add_promotion_flag left
filter_by_promotion(ads, h, cfg, store) ==
    IF ~cfg.ignore_promotion THEN Skipped(ads)
    ELSE TryFilter(ads, {r \in Refs(ads) : ~h[r].isPromotion}, {})

\* lines 170-180
FILTERS_ORDER == <<"filter_viewed", "filter_by_price_range",
                   "filter_by_black_keywords", "filter_by_white_keywords",
                   "filter_by_address", "filter_by_seller",
                   "filter_by_recent_time", "filter_by_reserve",
                   "filter_by_promotion">>

\* filter_fn(ads, ctx) for the filter named name: its result and the heap
\* it leaves
CallFilter(name, ads, h, cfg, store) ==
    LET hp == IF name = "filter_by_promotion"
              THEN add_promotion_flag(ads, h) ELSE h
        res == CASE name = "filter_viewed" ->
                        filter_viewed(ads, h, cfg, store)
                 [] name = "filter_by_price_range" ->
                        filter_by_price_range(ads, h, cfg, store)
                 [] name = "filter_by_black_keywords" ->
                        filter_by_black_keywords(ads, h, cfg, store)
                 [] name = "filter_by_white_keywords" ->
                        filter_by_white_keywords(ads, h, cfg, store)
                 [] name = "filter_by_address" ->
                        filter_by_address(ads, h, cfg, store)
                 [] name = "filter_by_seller" ->
                        filter_by_seller(ads, h, cfg, store)
                 [] name = "filter_by_recent_time" ->
                        filter_by_recent_time(ads, h, cfg, store)
                 [] name = "filter_by_reserve" ->
                        filter_by_reserve(ads, h, cfg, store)
                 [] name = "filter_by_promotion" ->
                        filter_by_promotion(ads, hp, cfg, store)
    IN  [out |-> res.out, raised |-> res.raised, heap |-> hp]

\* `if not ads: break` (lines 190-191)
ChainStopsNever(ads) == FALSE
ChainStops(ads) == ads = <<>>

\* The loop of apply_filters (lines 187-192) from the i-th filter on
RECURSIVE ApplyFrom(_, _, _, _, _, _)
ApplyFrom(i, ads, h, cfg, store, log) ==
    IF i > Len(FILTERS_ORDER)
    THEN [out |-> ads, heap |-> h, log |-> log]
    ELSE LET res == CallFilter(FILTERS_ORDER[i], ads, h, cfg, store)
             entry == [name |-> FILTERS_ORDER[i], input |-> ads,
                       output |-> res.out, raised |-> res.raised]
         IN  IF ChainStops(res.out)
             THEN [out |-> res.out, heap |-> res.heap,
                   log |-> Append(log, entry)]
             ELSE ApplyFrom(i + 1, res.out, res.heap, cfg, store,
                            Append(log, entry))

\* apply_filters (lines 183-192)
apply_filters(ads, h, cfg, store) == ApplyFrom(1, ads, h, cfg, store, <<>>)

(***************************************************************************)
(* infrastructure/ad_extractor.py.  A page body is what the extractor      *)
(* reads of it: whether the text is empty, the top-level key of the JSON   *)
(* of the <script type="mime/invalid"> element ("none": no such element),  *)
(* the place of "catalog" inside the value of that key ("data": under      *)
(* data.catalog, "top": directly under it) and the items of the catalog.   *)
(***************************************************************************)
\* an item whose id is null
NullItem == [Pool[1] EXCEPT !.id = 0]

Bodies == <<
    [empty |-> TRUE, top |-> "none", catalog_at |-> "none", items |-> <<>>],
    [empty |-> FALSE, top |-> "none", catalog_at |-> "none", items |-> <<>>],
    [empty |-> FALSE, top |-> "state", catalog_at |-> "data",
     items |-> <<Pool[1], Pool[3], Pool[5]>>],
    [empty |-> FALSE, top |-> "data", catalog_at |-> "data",
     items |-> <<Pool[1], NullItem, Pool[2]>>],
    [empty |-> FALSE, top |-> "state", catalog_at |-> "top",
     items |-> <<Pool[1]>>] >>

\* response.text of a page: an index into Bodies
BodyIds == DOMAIN Bodies

\* _find_json_on_page (lines 90-121): the working object, {} if none
find_json_on_page(body) ==
    IF body.top \in {"state", "data"}
    THEN [found |-> TRUE, catalog_at |-> body.catalog_at,
          items |-> body.items]
    ELSE [found |-> FALSE, catalog_at |-> "none", items |-> <<>>]

\* `data_from_page.get("data", {}).get("catalog") or {}` (line 39) and the
\* items ItemsResponse gives for it
catalog_items_direct(w) == IF w.catalog_at = "top" THEN w.items ELSE <<>>
catalog_items(w) == IF w.catalog_at = "data" THEN w.items ELSE <<>>

\* _clean_null_ads (lines 64-67)
clean_null_ads(ads) == SelectSeq(ads, LAMBDA ad : ad.id # 0)

\* extract_ads_from_html (lines 24-47); _add_seller_to_ads leaves in
\* sellerId the slug the item's data carries, which the items of Pool
\* already hold there
extract_ads_from_html(body) ==
    LET w == find_json_on_page(body)
    IN  IF ~w.found THEN <<>> ELSE clean_null_ads(catalog_items(w))

(***************************************************************************)
(* AvitoHttpClient                                                         *)
(***************************************************************************)
\* `self.stop_event and self.stop_event.is_set()` (lines 67, 114)
StopRequestedNever(ev) == FALSE
StopRequested(ev) == ev # "None" /\ ev = "set"

\* `except Exception as e` of _refresh_cookies (line 81)
RefreshCatchesNarrow(exc) == exc = "ValueError"
RefreshCatches(exc) == exc \in ExcClasses

\* `except Exception as err` of _change_ip (line 102)
ChangeIpCatchesNothing(exc) == FALSE
ChangeIpCatches(exc) == exc \in ExcClasses

\* `except requests.RequestsError as e` of fetch (line 148)
FetchCatches(exc) == exc = "RequestsError"

\* `if response.status_code >= 500` (line 129)
IsServerErrorStrict(status) == status > 500
IsServerErrorFrom400(status) == status >= 400
IsServerError(status) == status >= 500

\* `if attempt >= 3` (line 136)
RemintOn429Early(att) == att >= 2
RemintOn429(att) == att >= 3

\* `if response.status_code in [403, 302]` (line 140)
IsBlockedOnly403(status) == status = 403
IsBlocked(status) == status \in {403, 302}

\* `if attempt < retries` (line 150)
MoreAttempts(att, r) == att < r

\* default of _refresh_cookies' max_retries (line 61)
RefreshMaxRetries == 1

\* One try of get_cookies inside _refresh_cookies (lines 70-80): the
\* exception raised inside the try block, or "none"
MintRaises(m) ==
    CASE m = "raise" -> "Exception"
      [] m = "empty" -> "ValueError"
      [] OTHER       -> "none"

\* _refresh_cookies(max_retries) from its attempt k on; mints[k] is what
\* get_cookies does at attempt k, stops[k] whether the stop event is seen
\* set at attempt k.  Result: the return value, the session state and the
\* exception leaving the method.
RECURSIVE RefreshFrom(_, _, _, _, _, _)
RefreshFrom(k, maxr, mints, stops, ck, ua) ==
    IF k > maxr
    THEN [ok |-> FALSE, cookies |-> ck, user_agent |-> ua, exc |-> "none"]
    ELSE IF stops[k]
    THEN [ok |-> FALSE, cookies |-> ck, user_agent |-> ua, exc |-> "none"]
    ELSE LET e == MintRaises(mints[k]) IN
         IF e = "none"
         THEN [ok |-> TRUE, cookies |-> mints[k], user_agent |-> mints[k],
               exc |-> "none"]
         ELSE IF ~RefreshCatches(e)
         THEN [ok |-> FALSE, cookies |-> ck, user_agent |-> ua, exc |-> e]
         ELSE IF k < maxr
         THEN RefreshFrom(k + 1, maxr, mints, stops, ck, ua)
         ELSE [ok |-> FALSE, cookies |-> ck, user_agent |-> ua, exc |-> "none"]

refresh_cookies_early_header(mints, stops, ck, ua) ==
    LET r == RefreshFrom(1, RefreshMaxRetries, mints, stops, ck, ua)
    IN  IF ~r.ok /\ ~stops[1] /\ mints[1] = "empty"
        THEN [r EXCEPT !.user_agent = "empty"] ELSE r
refresh_cookies(mints, stops, ck, ua) ==
    RefreshFrom(1, RefreshMaxRetries, mints, stops, ck, ua)

\* _change_ip (lines 91-104): return value and the exception leaving it
change_ip(has_url, ip) ==
    IF ~has_url THEN [ok |-> FALSE, exc |-> "none"]
    ELSE IF ip = "raise"
    THEN (IF ChangeIpCatches("Exception")
          THEN [ok |-> FALSE, exc |-> "none"]
          ELSE [ok |-> FALSE, exc |-> "Exception"])
    ELSE [ok |-> ip = "200", exc |-> "none"]

\* fetch is entered (lines 106-113): `for attempt in range(1, retries + 1)`
FetchEnter(r) ==
    /\ retries' = r
    /\ attempt' = 1
    /\ requests_issued' = 0
    /\ n429' = 0
    /\ n5xx' = 0
    /\ refresh_calls' = 0
    /\ change_ip_calls' = 0
    /\ last' = NoStep
    /\ fetch_exc' = "none"
    /\ fetch_ret' = Absent
    /\ fetch_pc' = IF r >= 1 THEN "loop" ELSE "done"
    /\ calls' = calls + 1

\* The except clause of fetch (lines 148-156) for an exception exc raised
\* in the try block of the current attempt
FetchHandle(exc) ==
    IF FetchCatches(exc)
    THEN IF MoreAttempts(attempt, retries)
         THEN /\ attempt' = attempt + 1
              /\ fetch_pc' = "loop"
              /\ UNCHANGED <<fetch_ret, fetch_exc>>
         ELSE /\ fetch_pc' = "done"
              /\ fetch_ret' = Absent
              /\ UNCHANGED <<attempt, fetch_exc>>
    ELSE /\ fetch_pc' = "raised"
         /\ fetch_exc' = exc
         /\ UNCHANGED <<attempt, fetch_ret>>

\* The stop event as another thread may leave it while a call is running
StopSeen(ev) == IF ev = "None" THEN {FALSE}
                ELSE IF ev = "set" THEN {TRUE} ELSE {FALSE, TRUE}

\* One iteration of fetch's retry loop (lines 113-156)
FetchAttempt ==
    /\ fetch_pc = "loop"
    /\ UNCHANGED <<filterVars, runVars>>
    /\ IF StopRequested(stop_event)
       THEN \* lines 114-115
            /\ fetch_pc' = "done"
            /\ fetch_ret' = Absent
            /\ last' = [NoStep EXCEPT !.kind = "stopped", !.attempt = attempt]
            /\ UNCHANGED <<config, stop_event, session, cookies, user_agent,
                           save_count, good_request_count, bad_request_count,
                           attempt, retries, fetch_exc, requests_issued,
                           n429, n5xx, refresh_calls, change_ip_calls,
                           calls>>
       ELSE \E out \in config.upstream :
            /\ requests_issued' = requests_issued + 1
            /\ n429' = IF out = 429 THEN n429 + 1 ELSE n429
            /\ n5xx' = IF out # NetErr /\ out >= 500 THEN n5xx + 1 ELSE n5xx
            /\ UNCHANGED <<config, retries, calls>>
            /\ IF out = NetErr
               THEN \* session.get raises RequestsError
                    /\ FetchHandle("RequestsError")
                    /\ last' = [NoStep EXCEPT !.kind = "neterr",
                                              !.attempt = attempt]
                    /\ UNCHANGED <<stop_event, session, cookies, user_agent,
                                   save_count, good_request_count,
                                   bad_request_count, refresh_calls,
                                   change_ip_calls>>
               ELSE IF IsServerError(out)
               THEN \* lines 129-130
                    /\ FetchHandle("RequestsError")
                    /\ last' = [NoStep EXCEPT !.kind = "server_error",
                                  !.status = out, !.attempt = attempt]
                    /\ UNCHANGED <<stop_event, session, cookies, user_agent,
                                   save_count, good_request_count,
                                   bad_request_count, refresh_calls,
                                   change_ip_calls>>
               ELSE IF out = 429
               THEN \* lines 132-138
                    \E ip \in IpOutcomes :
                    LET rot == change_ip(config.proxy_change_url, ip) IN
                    /\ bad_request_count' = bad_request_count + 1
                    /\ session' = session + 1
                    /\ change_ip_calls' = change_ip_calls + 1
                    /\ UNCHANGED <<save_count, good_request_count>>
                    /\ IF rot.exc # "none"
                       THEN /\ FetchHandle(rot.exc)
                            /\ last' = [NoStep EXCEPT !.kind = "rate_limited",
                                         !.status = out, !.attempt = attempt,
                                         !.rotated = TRUE]
                            /\ UNCHANGED <<stop_event, cookies, user_agent,
                                           refresh_calls>>
                       ELSE IF RemintOn429(attempt)
                       THEN \E mints \in [1..RefreshMaxRetries -> MintOutcomes],
                               seen \in StopSeen(stop_event) :
                            LET rf == refresh_cookies(mints,
                                        [k \in 1..RefreshMaxRetries |-> seen],
                                        cookies, user_agent) IN
                            /\ refresh_calls' = refresh_calls + 1
                            /\ cookies' = rf.cookies
                            /\ user_agent' = rf.user_agent
                            /\ stop_event' = IF seen THEN "set" ELSE stop_event
                            /\ last' = [kind |-> "rate_limited", status |-> out,
                                        attempt |-> attempt, refreshed |-> TRUE,
                                        remint_ok |-> rf.ok, rotated |-> TRUE]
                            /\ FetchHandle(IF rf.exc # "none" THEN rf.exc
                                           ELSE "RequestsError")
                       ELSE /\ FetchHandle("RequestsError")
                            /\ last' = [NoStep EXCEPT !.kind = "rate_limited",
                                         !.status = out, !.attempt = attempt,
                                         !.rotated = TRUE]
                            /\ UNCHANGED <<stop_event, cookies, user_agent,
                                           refresh_calls>>
               ELSE IF IsBlocked(out)
               THEN \* lines 140-142
                    \E mints \in [1..RefreshMaxRetries -> MintOutcomes],
                       seen \in StopSeen(stop_event) :
                    LET rf == refresh_cookies(mints,
                                [k \in 1..RefreshMaxRetries |-> seen],
                                cookies, user_agent) IN
                    /\ refresh_calls' = refresh_calls + 1
                    /\ cookies' = rf.cookies
                    /\ user_agent' = rf.user_agent
                    /\ stop_event' = IF seen THEN "set" ELSE stop_event
                    /\ last' = [kind |-> "blocked", status |-> out,
                                attempt |-> attempt, refreshed |-> TRUE,
                                remint_ok |-> rf.ok, rotated |-> FALSE]
                    /\ FetchHandle(IF rf.exc # "none" THEN rf.exc
                                   ELSE "RequestsError")
                    /\ UNCHANGED <<session, save_count, good_request_count,
                                   bad_request_count, change_ip_calls>>
               ELSE \* lines 144-146
                    \E text \in BodyIds :
                    /\ save_count' = save_count + 1
                    /\ good_request_count' = good_request_count + 1
                    /\ fetch_pc' = "done"
                    /\ fetch_ret' = Body(out, text)
                    /\ last' = [NoStep EXCEPT !.kind = "success",
                                  !.status = out, !.attempt = attempt]
                    /\ UNCHANGED <<stop_event, session, cookies, user_agent,
                                   bad_request_count, attempt, fetch_exc,
                                   refresh_calls, change_ip_calls>>

\* The GUI/bot thread sets the stop event
SetStop ==
    /\ stop_event = "clear"
    /\ UNCHANGED <<filterVars, runVars>>
    /\ stop_event' = "set"
    /\ UNCHANGED <<config, session, cookies, user_agent, save_count,
                   good_request_count, bad_request_count, fetch_pc, attempt,
                   retries, fetch_ret, fetch_exc, requests_issued, n429, n5xx,
                   refresh_calls, change_ip_calls, last, calls>>

(***************************************************************************)
(* Initial conditions of the parts of the state.                           *)
(***************************************************************************)
\* AvitoHttpClient.__init__ (lines 35-40)
ClientInit ==
    /\ session = 0
    /\ cookies = "None"
    /\ user_agent = "ua0"
    /\ save_count = 0
    /\ good_request_count = 0
    /\ bad_request_count = 0

\* no fetch call is running
CallIdle ==
    /\ fetch_pc = "idle"
    /\ attempt = 0
    /\ retries = 0
    /\ fetch_ret = Absent
    /\ fetch_exc = "none"
    /\ requests_issued = 0
    /\ n429 = 0
    /\ n5xx = 0
    /\ refresh_calls = 0
    /\ change_ip_calls = 0
    /\ last = NoStep
    /\ calls = 0

\* no run is in progress
RunOff ==
    /\ run_pc = "off"
    /\ url_index = 0
    /\ page_index = 0
    /\ current_url = NoUrl
    /\ ads_in_link = <<>>
    /\ xlsx_handler = "None"
    /\ view_idx = 0
    /\ trace = <<>>

\* no batch is at hand
FilterIdle ==
    /\ heap = <<>>
    /\ viewed = {}
    /\ f_in = <<>>
    /\ f_out = <<>>
    /\ f_log = <<>>
    /\ f_pc = "idle"

(***************************************************************************)
(* The fetch harness: a caller that makes MaxCalls calls of fetch with any *)
(* retry budget, against any upstream.                                     *)
(***************************************************************************)
FetchConfigs == {[proxy_change_url |-> u, upstream |-> Outcomes] :
                    u \in BOOLEAN}

InitFetch ==
    /\ config \in FetchConfigs
    /\ stop_event \in {"None", "clear"}
    /\ ClientInit
    /\ CallIdle
    /\ FilterIdle
    /\ RunOff

FetchCall ==
    /\ fetch_pc \in {"idle", "done"}
    /\ UNCHANGED <<filterVars, runVars>>
    /\ calls < MaxCalls
    /\ \E r \in 0..MaxRetries : FetchEnter(r)
    /\ UNCHANGED <<config, stop_event, session, cookies, user_agent,
                   save_count, good_request_count, bad_request_count>>

NextFetch == FetchCall \/ FetchAttempt \/ SetStop

SpecFetch == InitFetch /\ [][NextFetch]_vars

(***************************************************************************)
(* The filter chain on its own: any batch of up to MaxBatch items, any     *)
(* filter configuration of FilterConfigs, any store of Stores.             *)
(***************************************************************************)
\* what each filter's configuration is when switched off / on
FilterOff == [min_price |-> 0, max_price |-> 100,
              keys_word_black_list |-> <<>>, keys_word_white_list |-> <<>>,
              geo |-> <<>>, seller_black_list |-> {}, max_age |-> 0,
              ignore_reserv |-> FALSE, ignore_promotion |-> FALSE]
FilterOn == [min_price |-> 15, max_price |-> 100,
             keys_word_black_list |-> <<<<"X">>>>,
             keys_word_white_list |-> <<<<"q">>, <<"A">>>>,
             geo |-> <<"M">>, seller_black_list |-> {"s1"}, max_age |-> 50,
             ignore_reserv |-> TRUE, ignore_promotion |-> TRUE]
FilterFields == {"price", "keys_word_black_list", "keys_word_white_list",
                 "geo", "seller_black_list", "max_age", "ignore_reserv",
                 "ignore_promotion"}

\* the configuration with exactly the filters of on switched on
FilterConfig(on) ==
    [min_price |-> IF "price" \in on THEN FilterOn.min_price
                   ELSE FilterOff.min_price,
     max_price |-> FilterOff.max_price,
     keys_word_black_list |->
        IF "keys_word_black_list" \in on THEN FilterOn.keys_word_black_list
        ELSE FilterOff.keys_word_black_list,
     keys_word_white_list |->
        IF "keys_word_white_list" \in on THEN FilterOn.keys_word_white_list
        ELSE FilterOff.keys_word_white_list,
     geo |-> IF "geo" \in on THEN FilterOn.geo ELSE FilterOff.geo,
     seller_black_list |->
        IF "seller_black_list" \in on THEN FilterOn.seller_black_list
        ELSE FilterOff.seller_black_list,
     max_age |-> IF "max_age" \in on THEN FilterOn.max_age
                 ELSE FilterOff.max_age,
     ignore_reserv |-> "ignore_reserv" \in on,
     ignore_promotion |-> "ignore_promotion" \in on,
     proxy_change_url |-> FALSE]

\* every configuration with at most two filters on, and the one with all
FilterConfigs ==
    {FilterConfig(on) : on \in {s \in SUBSET FilterFields :
                                  Cardinality(s) <= 2 \/ s = FilterFields}}

Stores == {{}, {<<1, 10>>}, {<<1, 20>>, <<3, 10>>}}

InitFilter ==
    /\ config \in FilterConfigs
    /\ viewed \in Stores
    /\ \E n \in 0..MaxBatch :
          /\ heap \in [1..n -> PoolItems]
          /\ f_in = [i \in 1..n |-> i]
    /\ f_out = <<>>
    /\ f_log = <<>>
    /\ f_pc = "ready"
    /\ stop_event = "None"
    /\ ClientInit
    /\ CallIdle
    /\ RunOff

\* AvitoParse.filter_ads (parser_cls.py lines 92-101) on the batch at hand
FilterAds ==
    /\ f_pc = "ready"
    /\ LET res == apply_filters(f_in, heap, config, viewed) IN
       /\ f_out' = res.out
       /\ heap' = res.heap
       /\ f_log' = res.log
    /\ f_pc' = "done"
    /\ UNCHANGED <<fetchVars, runVars, viewed, f_in>>

NextFilter == FilterAds

SpecFilter == InitFilter /\ [][NextFilter]_vars

(***************************************************************************)
(* AvitoParse (application/parser_cls.py), AdProcessor                     *)
(* (application/pipelines.py) and ParseLinksUseCase.run                    *)
(* (application/use_cases.py)                                              *)
(***************************************************************************)
\* _should_stop (parser_cls.py lines 167-169)
should_stop_never(ev) == FALSE
should_stop(ev) == ev # "None" /\ ev = "set"

\* get_next_page_url (lines 150-165): p defaults to 1 and is incremented
get_next_page_url_same(url) == url
get_next_page_url(url) ==
    [url EXCEPT !.p = (IF url.p = 0 THEN 1 ELSE url.p) + 1]

\* `continue` (lines 228-229) comes before get_next_page_url (line 238):
\* current_url keeps its value
UrlAfterAbsentAdvance(url) == get_next_page_url(url)
UrlAfterAbsent(url) == url

\* `if not html_code` (line 228): None or the empty string
NoHtml(ret) == ~ret.some \/ Bodies[ret.text].empty

\* `if not ads: break` (lines 232-234)
PageIsLastNever(ads) == FALSE
PageIsLast(ads) == ads = <<>>

\* `continue` (lines 228-229): the for loop takes its next index
ContinueIndexStay(pi) == pi
ContinueIndex(pi) == pi + 1

\* the Item objects a list of references stands for
ItemsOf(h, refs) == [i \in 1..Len(refs) |-> h[refs[i]]]

\* filtered_ads of _process_ads_batch (lines 197-211): what is handed to
\* ad_processor.process and to ads_in_link.extend
filtered_ads_unfiltered(h, filtered) == h
filtered_ads(h, filtered) == ItemsOf(h, filtered)

\* SQLiteViewedRepository.mark_viewed -> add_record_from_page: the store
\* after the ads are marked
mark_viewed(store, ads) ==
    store \cup {<<ads[i].id, ads[i].priceDetailed.value>> :
                    i \in {j \in 1..Len(ads) : ads[j].priceDetailed.has_value}}

\* SendAdToTg.send_to_tg (tg_sender.py), the notification channel: it
\* delivers, or fails with a write error
NotifyOutcomes == {"ok", "raise"}

\* an entry of the trace
Ev(ev, ads, file) ==
    [ev |-> ev, u |-> url_index, p |-> current_url.p, page |-> page_index,
     ads |-> ads, file |-> file]

\* the fetch call has returned to its caller
CallClear ==
    /\ fetch_pc' = "idle"
    /\ attempt' = 0
    /\ retries' = 0
    /\ fetch_ret' = Absent
    /\ fetch_exc' = "none"
    /\ requests_issued' = 0
    /\ n429' = 0
    /\ n5xx' = 0
    /\ refresh_calls' = 0
    /\ change_ip_calls' = 0
    /\ last' = NoStep
    /\ UNCHANGED calls

clientVars == <<config, stop_event, session, cookies, user_agent, save_count,
                good_request_count, bad_request_count>>

\* The rest of _process_ads_batch after parse_views (lines 202-213) with
\* AdProcessor.process (pipelines.py lines 56-64), then the end of the page
\* iteration of _process_url (lines 238-241)
BatchFinish(h, filtered, pre) ==
    LET ads == filtered_ads(h, filtered)
        notify == config.tg /\ ~config.one_time_start
        evs == IF ads = <<>> THEN <<>>
               ELSE <<Ev("mark", ads, "")>>
                    \o (IF notify THEN <<Ev("notify", ads, "")>> ELSE <<>>)
                    \o (IF config.save_xlsx
                        THEN <<Ev("collect", ads, "")>> ELSE <<>>)
    IN  /\ viewed' = IF ads = <<>> THEN viewed ELSE mark_viewed(viewed, ads)
        /\ view_idx' = 0
        /\ heap' = h
        /\ f_out' = filtered
        /\ f_pc' = "done"
        /\ \E sent \in (IF ads # <<>> /\ notify THEN NotifyOutcomes
                        ELSE {"ok"}) :
              IF sent = "raise"
              THEN \* nothing between send_to_tg and the caller of run
                   \* catches: the run is over
                   /\ trace' = trace \o pre
                                \o <<Ev("mark", ads, ""),
                                     Ev("notify_failed", ads, "")>>
                   /\ run_pc' = "raised"
                   /\ UNCHANGED <<ads_in_link, current_url, page_index>>
              ELSE /\ ads_in_link' = IF ads # <<>> /\ config.save_xlsx
                                     THEN ads_in_link \o ads
                                     ELSE ads_in_link
                   /\ trace' = trace \o pre \o evs
                   /\ current_url' = get_next_page_url(current_url)
                   /\ page_index' = page_index + 1
                   /\ run_pc' = "page_loop"

\* ParseLinksUseCase.run up to its loop (use_cases.py lines 26-29)
RunStart ==
    /\ run_pc = "start"
    /\ xlsx_handler' = IF config.one_file_for_link THEN "None"
                       ELSE xlsx_handler
    /\ url_index' = 1
    /\ run_pc' = "url_loop"
    /\ UNCHANGED <<fetchVars, filterVars, page_index, current_url,
                   ads_in_link, view_idx, trace>>

\* The head of run's loop (lines 31-35) and the entry of _process_url
\* (parser_cls.py lines 217-218)
UrlBegin ==
    /\ run_pc = "url_loop"
    /\ IF url_index > Len(config.urls) \/ should_stop(stop_event)
       THEN /\ run_pc' = "after_loop"
            /\ UNCHANGED <<page_index, current_url, ads_in_link, trace>>
       ELSE /\ run_pc' = "page_loop"
            /\ ads_in_link' = <<>>
            /\ current_url' = config.urls[url_index]
            /\ page_index' = 0
            /\ trace' = Append(trace,
                               [ev |-> "url", u |-> url_index,
                                p |-> config.urls[url_index].p, page |-> 0,
                                ads |-> <<>>, file |-> ""])
    /\ UNCHANGED <<fetchVars, filterVars, url_index, xlsx_handler, view_idx>>

\* The head of _process_url's loop up to the call of fetch (lines 220-227,
\* 176)
PageBegin ==
    /\ run_pc = "page_loop"
    /\ IF page_index >= config.count \/ should_stop(stop_event)
       THEN /\ run_pc' = "url_end"
            /\ UNCHANGED <<fetchVars, xlsx_handler, trace>>
       ELSE /\ run_pc' = "fetching"
            /\ xlsx_handler' =
                  IF xlsx_handler = "None" /\ config.one_file_for_link
                  THEN "link" ELSE xlsx_handler
            /\ trace' = Append(trace, Ev("fetch", <<>>, ""))
            /\ FetchEnter(config.max_count_of_retry)
            /\ UNCHANGED clientVars
    /\ UNCHANGED <<filterVars, url_index, page_index, current_url,
                   ads_in_link, view_idx>>

\* fetch has returned the page: the rest of _get_page_html (lines 177-182)
\* and of the page iteration (lines 228-241), up to the first fetch of
\* parse_views (lines 103-114) if there is one
PageFetched ==
    /\ run_pc = "fetching"
    /\ fetch_pc = "done"
    /\ UNCHANGED <<clientVars, url_index, xlsx_handler>>
    /\ IF NoHtml(fetch_ret)
       THEN \* `continue`
            /\ page_index' = ContinueIndex(page_index)
            /\ run_pc' = "page_loop"
            /\ trace' = Append(trace, Ev("absent", <<>>, ""))
            /\ current_url' = UrlAfterAbsent(current_url)
            /\ CallClear
            /\ UNCHANGED <<filterVars, ads_in_link, view_idx>>
       ELSE LET ads == extract_ads_from_html(Bodies[fetch_ret.text]) IN
            IF PageIsLast(ads)
            THEN \* `break`
                 /\ run_pc' = "url_end"
                 /\ trace' = Append(trace, Ev("page", ads, ""))
                 /\ CallClear
                 /\ UNCHANGED <<filterVars, page_index, current_url,
                                ads_in_link, view_idx>>
            ELSE LET h0 == [i \in 1..Len(ads) |-> ads[i]]
                     refs == [i \in 1..Len(ads) |-> i]
                     res == apply_filters(refs, h0, config, viewed)
                     page == Ev("page", ads, "")
                     filtered == Ev("filter", ItemsOf(res.heap, res.out), "")
                 IN  /\ f_in' = refs
                     /\ f_log' = res.log
                     /\ IF config.parse_views /\ res.out # <<>>
                        THEN /\ run_pc' = "views"
                             /\ view_idx' = 1
                             /\ heap' = res.heap
                             /\ f_out' = res.out
                             /\ f_pc' = "done"
                             /\ trace' = trace \o
                                  <<page, filtered,
                                    Ev("view", <<res.heap[res.out[1]]>>, "")>>
                             /\ FetchEnter(config.max_count_of_retry)
                             /\ UNCHANGED <<viewed, page_index, current_url,
                                            ads_in_link>>
                        ELSE /\ CallClear
                             /\ BatchFinish(res.heap, res.out,
                                            <<page, filtered>>)

\* fetch has returned the page of one ad to parse_views (lines 109-127):
\* the next ad, or the rest of the batch
ViewFetched ==
    /\ run_pc = "views"
    /\ fetch_pc = "done"
    /\ UNCHANGED <<clientVars, url_index, xlsx_handler, f_in, f_log>>
    /\ LET r == f_out[view_idx]
           h1 == IF NoHtml(fetch_ret) THEN heap
                 ELSE [heap EXCEPT ![r].views = "parsed"]
       IN  IF view_idx < Len(f_out)
           THEN /\ view_idx' = view_idx + 1
                /\ heap' = h1
                /\ trace' = Append(trace,
                              Ev("view", <<h1[f_out[view_idx + 1]]>>, ""))
                /\ FetchEnter(config.max_count_of_retry)
                /\ UNCHANGED <<viewed, f_out, f_pc, run_pc, page_index,
                               current_url, ads_in_link>>
           ELSE /\ CallClear
                /\ BatchFinish(h1, f_out, <<>>)

\* what XLSXHandler.append_data_from_page can do
SinkOutcomes == {"ok", "raise"}

\* _process_url has returned: the rest of the iteration of run's loop
\* (use_cases.py lines 37-44) with _save_data (parser_cls.py lines 143-148)
UrlEnd ==
    /\ run_pc = "url_end"
    /\ IF /\ ads_in_link # <<>>
          /\ xlsx_handler # "None"
          /\ ~config.one_file_for_link
       THEN \E sink \in SinkOutcomes :
               trace' = Append(trace,
                          Ev(IF sink = "ok" THEN "export"
                             ELSE "export_failed", ads_in_link, xlsx_handler))
       ELSE trace' = trace
    /\ xlsx_handler' = IF config.one_file_for_link THEN "None"
                       ELSE xlsx_handler
    /\ url_index' = url_index + 1
    /\ run_pc' = "url_loop"
    /\ UNCHANGED <<fetchVars, filterVars, page_index, current_url,
                   ads_in_link, view_idx>>

\* After run's loop (use_cases.py lines 46-56)
RunFinish ==
    /\ run_pc = "after_loop"
    /\ IF config.one_time_start /\ config.tg
       THEN \E sent \in NotifyOutcomes :
               IF sent = "raise"
               THEN /\ run_pc' = "raised"
                    /\ trace' = Append(trace,
                                       Ev("complete_failed", <<>>, ""))
                    /\ UNCHANGED stop_event
               ELSE /\ run_pc' = "done"
                    /\ trace' = Append(trace, Ev("complete", <<>>, ""))
                    /\ stop_event' = IF stop_event # "None" THEN "set"
                                     ELSE stop_event
       ELSE /\ run_pc' = "done"
            /\ UNCHANGED <<trace, stop_event>>
    /\ UNCHANGED <<config, session, cookies, user_agent, save_count,
                   good_request_count, bad_request_count, fetch_pc, attempt,
                   retries, fetch_ret, fetch_exc, requests_issued, n429,
                   n5xx, refresh_calls, change_ip_calls, last, calls,
                   filterVars, url_index, page_index, current_url,
                   ads_in_link, xlsx_handler, view_idx>>

(***************************************************************************)
(* A run of the parser (AvitoParse.parse) over the runs of RunInits.       *)
(***************************************************************************)
\* the outcomes the upstream gives during a run: success and server error
\* (how fetch deals with the others is the subject of SpecFetch)
RunUpstream == {200, 500}

\* a configuration of a run: the filters' part f and the run's own flags
RunConfig(f, urls, one_file, save, one_shot, tg, views) ==
    [f EXCEPT !.proxy_change_url = TRUE] @@
    [urls |-> urls, count |-> MaxPages, max_count_of_retry |-> 2,
     one_file_for_link |-> one_file, save_xlsx |-> save,
     one_time_start |-> one_shot, tg |-> tg, parse_views |-> views,
     upstream |-> RunUpstream]

\* the runs checked: a configuration and whether a stop event exists
RunInits ==
    {[config |-> RunConfig(FilterConfig({}), <<Url(1, 0), Url(2, 3)>>,
                           FALSE, TRUE, FALSE, TRUE, FALSE),
      stop_event |-> "clear"],
     [config |-> RunConfig(FilterConfig({"ignore_reserv"}),
                           <<Url(1, 0), Url(2, 3)>>,
                           TRUE, TRUE, TRUE, TRUE, FALSE),
      stop_event |-> "clear"],
     [config |-> RunConfig(FilterConfig({}), <<Url(1, 0)>>,
                           FALSE, FALSE, TRUE, FALSE, TRUE),
      stop_event |-> "clear"],
     [config |-> RunConfig(FilterConfig({}), <<Url(1, 2)>>,
                           FALSE, TRUE, TRUE, TRUE, FALSE),
      stop_event |-> "None"]}

Init ==
    /\ \E i \in RunInits : config = i.config /\ stop_event = i.stop_event
    /\ viewed = {}
    /\ ClientInit
    /\ CallIdle
    /\ heap = <<>>
    /\ f_in = <<>>
    /\ f_out = <<>>
    /\ f_log = <<>>
    /\ f_pc = "idle"
    /\ run_pc = "start"
    /\ url_index = 0
    /\ page_index = 0
    /\ current_url = NoUrl
    /\ ads_in_link = <<>>
    /\ xlsx_handler = "all"
    /\ view_idx = 0
    /\ trace = <<>>

Next ==
    \/ RunStart
    \/ UrlBegin
    \/ PageBegin
    \/ FetchAttempt
    \/ PageFetched
    \/ ViewFetched
    \/ UrlEnd
    \/ RunFinish
    \/ SetStop

Spec == Init /\ [][Next]_vars

(***************************************************************************)
(* Claims about AvitoHttpClient.fetch, checked under SpecFetch.            *)
(***************************************************************************)
FetchEnded == fetch_pc \in {"done", "raised"}

\* C1: with a retry budget N >= 1, when every response has status >= 500
\* and cancellation is never raised, fetch issues exactly N requests and
\* then returns absent; while it runs it has issued fewer than N.
C1_ServerErrorsExhaustBudget ==
    (retries >= 1 /\ stop_event # "set" /\ n5xx = requests_issued
        /\ fetch_pc # "idle")
    => /\ fetch_pc = "loop" => requests_issued = attempt - 1
                               /\ requests_issued < retries
       /\ FetchEnded => /\ fetch_pc = "done"
                        /\ fetch_ret = Absent
                        /\ requests_issued = retries

C1_Witness ==
    /\ fetch_pc = "done" /\ retries = 3 /\ stop_event # "set"
    /\ n5xx = 3 /\ requests_issued = 3 /\ fetch_ret = Absent

\* The case of C2: a finished call with retries >= 3 whose attempts 1 and
\* 2 received 429 and whose attempt 3 received 200.
C2_Case ==
    /\ fetch_pc = "done" /\ retries >= 3
    /\ requests_issued = 3 /\ n429 = 2
    /\ last.kind = "success" /\ last.status = 200 /\ last.attempt = 3

\* C2 as stated: in a call where attempts 1 and 2 receive 429 and attempt 3
\* succeeds, _refresh_cookies is invoked exactly once.
C2_Original == C2_Case => refresh_calls = 1

\* C2 as amended: in a call where attempts 1 and 2 receive 429 and attempt
\* 3 succeeds, _refresh_cookies is not invoked at all (the 429 branch
\* re-mints only when the 429 arrives at attempt >= 3).
C2_NoRemintBeforeThirdAttempt == C2_Case => refresh_calls = 0

C2_Witness == C2_Case /\ change_ip_calls = 2 /\ bad_request_count >= 2

\* C3: whatever the upstream does (5xx, 429, 403, 302, network error,
\* failed re-mint, failed IP rotation), no exception leaves fetch; a call
\* that is still running has budget left, and a call that returned gives a
\* body exactly when its last attempt succeeded and absent otherwise.
C3_FetchNeverRaises ==
    /\ fetch_pc # "raised"
    /\ fetch_exc = "none"
    /\ fetch_pc = "loop" => requests_issued < retries /\ attempt <= retries
    /\ fetch_pc = "done" => /\ requests_issued <= retries
                            /\ fetch_ret.some <=> last.kind = "success"
                            /\ ~fetch_ret.some => fetch_ret = Absent

C3_Witness ==
    /\ fetch_pc = "done" /\ retries = 3 /\ requests_issued = 3
    /\ n429 >= 1 /\ n5xx >= 1
    /\ last.kind = "blocked" /\ last.refreshed /\ ~last.remint_ok
    /\ fetch_ret = Absent

\* C4: an attempt that starts with the stop event set returns absent at
\* once: no request is issued, no retry is consumed and the counters and
\* the session state keep their values.
C4_CancelledAttempt ==
    [][(fetch_pc = "loop" /\ stop_event = "set")
       => /\ fetch_pc' = "done"
          /\ fetch_ret' = Absent
          /\ requests_issued' = requests_issued
          /\ attempt' = attempt
          /\ good_request_count' = good_request_count
          /\ bad_request_count' = bad_request_count
          /\ session' = session
          /\ cookies' = cookies
          /\ user_agent' = user_agent
          /\ save_count' = save_count
          /\ refresh_calls' = refresh_calls
          /\ change_ip_calls' = change_ip_calls]_vars

C4_Witness ==
    /\ fetch_pc = "done" /\ last.kind = "stopped" /\ last.attempt >= 2
    /\ requests_issued = last.attempt - 1 /\ fetch_ret = Absent

(***************************************************************************)
(* Claims about the filter chain, checked under SpecFilter.                *)
(***************************************************************************)
\* the (id, price) pair of an ad is in the dedup store
PairSeen(ad, store) ==
    /\ ad.priceDetailed.present
    /\ ad.priceDetailed.has_value
    /\ <<ad.id, ad.priceDetailed.value>> \in store

\* C7: filter_viewed outputs exactly the ads of the batch whose (id, price)
\* pair is not in the dedup store, for every batch and every store.
C7_DedupExact ==
    f_pc = "done"
    => f_log[1].output =
          SelectSeq(f_in, LAMBDA r : ~PairSeen(heap[r], viewed))

\* position of reference r in the list ads
IndexIn(ads, r) == CHOOSE i \in 1..Len(ads) : ads[i] = r

\* C8: the list apply_filters returns is a subsequence of its input: every
\* survivor is an ad of the input, none occurs twice, and survivors keep
\* their relative order.
C8_OutputIsSubsequence ==
    f_pc = "done"
    => /\ \A k \in 1..Len(f_out) : f_out[k] \in Refs(f_in)
       /\ \A k, l \in 1..Len(f_out) :
             k < l => IndexIn(f_in, f_out[k]) < IndexIn(f_in, f_out[l])

C8_Witness == f_pc = "done" /\ Len(f_in) = 3 /\ f_out = <<1, 3>>

\* C9: the filters apply_filters invokes are a prefix of FILTERS_ORDER, each
\* is handed the output of the one before it, none is invoked after one
\* that returned an empty list, and the chain stops short only on an empty
\* list.
C9_OrderedPrefixStopsOnEmpty ==
    f_pc = "done"
    => /\ Len(f_log) \in 1..Len(FILTERS_ORDER)
       /\ \A i \in 1..Len(f_log) : f_log[i].name = FILTERS_ORDER[i]
       /\ f_log[1].input = f_in
       /\ \A i \in 2..Len(f_log) : f_log[i].input = f_log[i - 1].output
       /\ \A i \in 1..(Len(f_log) - 1) : f_log[i].output # <<>>
       /\ Len(f_log) < Len(FILTERS_ORDER) => f_log[Len(f_log)].output = <<>>
       /\ f_out = f_log[Len(f_log)].output

C9_Witness ==
    /\ f_pc = "done" /\ Len(f_in) >= 2 /\ Len(f_log) = 5
    /\ f_log[1].output # f_in /\ f_log[4].output # <<>>
    /\ f_log[5].output = <<>>

\* C10: a filter whose predicate raises on some ad of its batch returns the
\* batch it was given, same ads in the same order, and the chain goes on to
\* the next filter with that batch.
C10_FailOpen ==
    f_pc = "done"
    => \A i \in 1..Len(f_log) :
          f_log[i].raised
          => /\ f_log[i].output = f_log[i].input
             /\ f_log[i].input # <<>>
             /\ i < Len(FILTERS_ORDER)
                => /\ Len(f_log) > i
                   /\ f_log[i + 1].input = f_log[i].input

C10_Witness ==
    /\ f_pc = "done"
    /\ \E i \in 2..Len(f_log) :
          /\ f_log[i].raised /\ Len(f_log[i].input) >= 2 /\ Len(f_log) > i
    /\ f_log[1].raised

(***************************************************************************)
(* Claims about _process_url, checked under Spec.                          *)
(***************************************************************************)
\* the events of the trace that belong to the pages of a URL
PageEvents ==
    {"fetch", "absent", "page", "filter", "view", "mark", "notify",
     "notify_failed", "collect"}

\* the trace has, at k, a fetched page of which no ad was extracted
EmptyPageAt(k) == trace[k].ev = "page" /\ trace[k].ads = <<>>

\* C5: once a fetched page of a URL yields no ad, no further page of that
\* URL is fetched and nothing is filtered, marked, notified or collected for
\* that page, whatever the number of pages visited so far.
C5_EmptyPageEndsUrl ==
    \A k \in 1..Len(trace) :
       EmptyPageAt(k)
       => \A m \in (k + 1)..Len(trace) :
             trace[m].u = trace[k].u => trace[m].ev \notin PageEvents

C5_Witness ==
    /\ run_pc = "done"
    /\ \E k \in 1..Len(trace) :
          /\ EmptyPageAt(k)
          /\ trace[k].u = 1
          /\ trace[k].page + 1 < config.count
          /\ \E m \in (k + 1)..Len(trace) :
                trace[m].ev = "fetch" /\ trace[m].u = 2

\* the number of listing pages fetch was called for, for the URL u
FetchesOf(u) ==
    Cardinality({k \in 1..Len(trace) :
                    trace[k].ev = "fetch" /\ trace[k].u = u})

\* C6: after a page fetch that returned absent the next listing fetch of the
\* URL asks for the same page with the page counter one higher, and a URL
\* gets at most config.count listing fetches.
C6_AbsentKeepsUrlWithinBudget ==
    /\ \A u \in 1..Len(config.urls) : FetchesOf(u) <= config.count
    /\ \A k \in 1..(Len(trace) - 1) :
          (trace[k].ev = "absent" /\ trace[k + 1].ev = "fetch")
          => /\ trace[k + 1].u = trace[k].u
             /\ trace[k + 1].p = trace[k].p
             /\ trace[k + 1].page = trace[k].page + 1

C6_Witness ==
    /\ \E k \in 1..(Len(trace) - 1) :
          /\ trace[k].ev = "absent" /\ trace[k + 1].ev = "fetch"
          /\ trace[k].u = 2 /\ trace[k].p = 3
    /\ FetchesOf(2) = config.count
    /\ run_pc = "done"
    /\ trace[Len(trace)].ev = "absent"

(***************************************************************************)
(* Claims about the run, checked under Spec.                               *)
(***************************************************************************)
\* the ads of the events of the kinds evs of the URL u among the first k
\* entries of the trace, in the order of the trace
RECURSIVE AdsOf(_, _, _)
AdsOf(k, u, evs) ==
    IF k = 0 THEN <<>>
    ELSE AdsOf(k - 1, u, evs)
         \o (IF trace[k].u = u /\ trace[k].ev \in evs
             THEN trace[k].ads ELSE <<>>)

\* C11: with export enabled and one export file per run, the ads marked in
\* the dedup store for a URL are the survivors of the filter chain on the
\* pages of that URL, in page order, and once the URL is finished the ads
\* handed to the export sink are those same survivors, each once; nothing
\* is exported for a URL before it is finished.
C11_SurvivorsMarkedAndExported ==
    (config.save_xlsx /\ ~config.one_file_for_link)
    => \A u \in 1..Len(config.urls) :
          LET survivors == AdsOf(Len(trace), u, {"filter"})
              marked == AdsOf(Len(trace), u, {"mark"})
              exported == AdsOf(Len(trace), u, {"export", "export_failed"})
          IN  /\ marked = survivors
              /\ u < url_index => exported = survivors
              /\ u >= url_index => exported = <<>>

\* two pages of one URL: the second has an ad the first left marked, which
\* the dedup filter removes, and an ad that survives
C11_Witness ==
    /\ config.save_xlsx /\ ~config.one_file_for_link
    /\ url_index > 1
    /\ \E k \in 1..Len(trace) :
          /\ trace[k].ev = "export" /\ trace[k].u = 1
          /\ Len(trace[k].ads) = 3
          /\ trace[k].ads[1].id = 1 /\ trace[k].ads[1].priceDetailed.value = 10
          /\ trace[k].ads[3].id = 1 /\ trace[k].ads[3].priceDetailed.value = 20
    /\ \E k \in 1..(Len(trace) - 1) :
          /\ trace[k].ev = "page" /\ trace[k].u = 1 /\ Len(trace[k].ads) = 2
          /\ trace[k + 1].ev = "filter" /\ Len(trace[k + 1].ads) = 1

\* the page number a URL asks for: 1 when it has no parameter p
PageNumber(p) == IF p = 0 THEN 1 ELSE p

\* the positions of the trace where the ads of a page of the URL u went
\* through the filter chain
ProcessedAt(u) ==
    {k \in 1..Len(trace) : trace[k].ev = "filter" /\ trace[k].u = u}

\* C12: the URLs are begun in the configured order, nothing of a URL
\* happens after the next URL has begun, and the pages of one URL whose ads
\* are processed have page numbers that start at the URL's own and go up by
\* one from each processed page to the next.
C12_UrlAndPageOrder ==
    /\ \A k \in 1..(Len(trace) - 1) : trace[k].u <= trace[k + 1].u
    /\ \A k \in 1..Len(trace) :
          trace[k].ev = "url"
          => /\ trace[k].p = config.urls[trace[k].u].p
             /\ IF k = 1 THEN trace[k].u = 1
                ELSE trace[k].u = trace[k - 1].u + 1
    /\ \A u \in 1..Len(config.urls) :
          \A k \in ProcessedAt(u) :
             LET before == {m \in ProcessedAt(u) : m < k} IN
             PageNumber(trace[k].p) =
                PageNumber(config.urls[u].p) + Cardinality(before)

C12_Witness ==
    /\ run_pc = "done"
    /\ \E k \in ProcessedAt(1) : trace[k].p = 2
    /\ \E k \in ProcessedAt(2) : trace[k].p = 4

\* C13: when a one-shot run is over, all its URLs exhausted, a completion
\* notification has been sent and the stop event, if there is one, is set,
\* with or without a notification channel.
C13_OneShotCompletes ==
    (run_pc = "done" /\ config.one_time_start
                     /\ url_index > Len(config.urls))
    => /\ \E k \in 1..Len(trace) : trace[k].ev = "complete"
       /\ stop_event # "None" => stop_event = "set"

\* the run is at the head of a URL or page iteration, or past the loops
AtBoundary == run_pc \in {"url_loop", "page_loop", "url_end", "after_loop",
                          "done", "raised"}

\* C14: with the stop event set when a URL or a page iteration is about to
\* begin, the step taken calls fetch for no page and begins no URL, and
\* nothing is fetched, filtered, viewed, marked, notified or collected from
\* then on: the run stays at iteration boundaries until it is over.
C14_CancelAtBoundary ==
    [][(stop_event = "set" /\ AtBoundary)
       => /\ AtBoundary'
          /\ stop_event' = "set"
          /\ fetch_pc' = fetch_pc /\ calls' = calls
          /\ ads_in_link' = ads_in_link /\ viewed' = viewed
          /\ \A k \in (Len(trace) + 1)..Len(trace') :
                trace'[k].ev \notin PageEvents \cup {"url"}]_vars

C14_Witness ==
    /\ run_pc = "done" /\ stop_event = "set"
    /\ ~config.one_time_start /\ Len(config.urls) = 2
    /\ FetchesOf(1) = 1 /\ config.count > 1
    /\ \E k \in 1..Len(trace) : trace[k].ev = "mark" /\ trace[k].u = 1
    /\ \A k \in 1..Len(trace) : trace[k].u = 1

\* a write failure of the export sink or of the notification channel
\* happened while ads were being delivered
SinkFailed ==
    \E k \in 1..Len(trace) :
       trace[k].ev \in {"export_failed", "notify_failed"}

\* C15: a write failure of the export sink or of the notification channel
\* during the delivery of ads does not abort the run.
C15_SinkFailureAbsorbed == SinkFailed => run_pc # "raised"

(***************************************************************************)
(* Further claims about AvitoHttpClient.fetch, checked under SpecFetch.    *)
(***************************************************************************)
\* the step is an attempt of fetch that called _refresh_cookies, which
\* returned False
RemintFailedStep ==
    /\ fetch_pc = "loop"
    /\ refresh_calls' = refresh_calls + 1
    /\ ~last'.remint_ok

\* the retry loop goes on after the attempt: to the next attempt while
\* attempts remain, to the absent result otherwise
LoopGoesOn ==
    /\ fetch_pc' # "raised"
    /\ fetch_exc' = "none"
    /\ IF attempt < retries
       THEN fetch_pc' = "loop" /\ attempt' = attempt + 1
       ELSE fetch_pc' = "done" /\ fetch_ret' = Absent

\* C16: an attempt of fetch whose cookie re-mint fails leaves the stored
\* cookies and the user-agent header as they were, and the retry loop of
\* fetch goes on.
C16_FailedRemintKeepsSession ==
    [][RemintFailedStep
       => /\ cookies' = cookies
          /\ user_agent' = user_agent
          /\ LoopGoesOn]_vars

\* a re-mint failed after an earlier one had succeeded
C16_Witness ==
    /\ fetch_pc = "loop"
    /\ last.refreshed /\ ~last.remint_ok
    /\ cookies = "m1" /\ user_agent = "m1"
    /\ stop_event # "set"

\* the step is an attempt of fetch that received status 429
RateLimitedStep == fetch_pc = "loop" /\ n429' = n429 + 1

\* C17: an attempt k of fetch that receives 429 adds one to the failure
\* counter, replaces the session, calls the IP rotation once and calls the
\* cookie re-mint exactly when k >= 3; the retry loop goes on whatever the
\* rotation and the re-mint did.
C17_RateLimited ==
    [][RateLimitedStep
       => /\ bad_request_count' = bad_request_count + 1
          /\ good_request_count' = good_request_count
          /\ session' = session + 1
          /\ change_ip_calls' = change_ip_calls + 1
          /\ refresh_calls' = IF attempt >= 3 THEN refresh_calls + 1
                              ELSE refresh_calls
          /\ LoopGoesOn]_vars

\* three 429 in a row: only the third re-minted, and the re-mint failed
C17_Witness ==
    /\ last.kind = "rate_limited" /\ last.attempt = 3
    /\ last.refreshed /\ ~last.remint_ok
    /\ n429 = 3 /\ change_ip_calls = 3 /\ refresh_calls = 1
    /\ config.proxy_change_url
    /\ fetch_pc = "done" /\ fetch_ret = Absent

\* the step is an attempt of fetch that received a response with a status
\* of the set sts
ResponseStep(sts) ==
    /\ fetch_pc = "loop"
    /\ requests_issued' = requests_issued + 1
    /\ last'.status \in sts

\* C18: an attempt of fetch that receives 403 or 302 calls the cookie
\* re-mint within the attempt, leaves both request counters as they were,
\* returns no body, and goes to the next attempt while attempts remain.
C18_Blocked ==
    [][ResponseStep({403, 302})
       => /\ refresh_calls' = refresh_calls + 1
          /\ last'.refreshed
          /\ good_request_count' = good_request_count
          /\ bad_request_count' = bad_request_count
          /\ ~fetch_ret'.some
          /\ LoopGoesOn]_vars

C18_Witness ==
    /\ last.status = 302 /\ last.refreshed /\ last.remint_ok
    /\ fetch_pc = "loop" /\ attempt = 2
    /\ good_request_count = 0 /\ bad_request_count = 0
    /\ cookies = "m2"

\* a status of the 2xx range
Is2xx(status) == 200 <= status /\ status <= 299

\* C19: fetch returns a body, persists the cookies and counts a success
\* only for a response whose status is in the 2xx range.
C19_SuccessOnly2xx ==
    /\ fetch_ret.some => Is2xx(fetch_ret.status)
    /\ last.kind = "success" => Is2xx(last.status)

(***************************************************************************)
(* Further claims about _process_url, checked under Spec.                  *)
(***************************************************************************)
\* the positions of the trace where fetch was called for a listing page of
\* the URL u
FetchedAt(u) ==
    {k \in 1..Len(trace) : trace[k].ev = "fetch" /\ trace[k].u = u}

\* C20 as stated: a page whose fetch returned absent is not requested
\* again in the loop of its URL.
C20_Original ==
    \A k \in 1..Len(trace) :
       trace[k].ev = "absent"
       => \A m \in FetchedAt(trace[k].u) : m > k => trace[m].p # trace[k].p

\* C20, amended: every listing fetch of a URL asks for the URL's first page
\* number plus the number of its pages processed so far; after an absent
\* fetch the next iteration asks for the same page again, no page is
\* skipped, and the failed attempt has used up one iteration.
C20_FailedPageIsRequestedAgain ==
    \A u \in 1..Len(config.urls) :
       \A k \in FetchedAt(u) :
          /\ PageNumber(trace[k].p) =
                PageNumber(config.urls[u].p)
                + Cardinality({m \in ProcessedAt(u) : m < k})
          /\ trace[k].page = Cardinality({m \in FetchedAt(u) : m < k})

\* a page that failed once is fetched again and its ads are processed
C20_Witness ==
    \E k \in 1..(Len(trace) - 3) :
       /\ trace[k].ev = "absent" /\ trace[k].u = 2 /\ trace[k].p = 3
       /\ trace[k + 1].ev = "fetch" /\ trace[k + 1].p = 3
       /\ trace[k + 2].ev = "page" /\ trace[k + 2].ads # <<>>
       /\ trace[k + 3].ev = "filter" /\ trace[k + 3].p = 3

(***************************************************************************)
(* The request counters, checked under SpecFetch.                          *)
(***************************************************************************)
\* the step is an attempt of fetch that ends the call with a body
BodyReturnedStep == fetch_pc = "loop" /\ fetch_pc' = "done" /\ fetch_ret'.some

\* C21: over the calls of fetch the success and the failure counter never
\* decrease; the success counter goes up by one exactly in the steps that
\* return a body, which also save the cookies, and the failure counter goes
\* up by one exactly in the steps that receive 429.  Both start at zero, so
\* they equal the number of calls that returned a body and the number of
\* 429 responses.
C21_Counters ==
    [][/\ good_request_count' >= good_request_count
       /\ bad_request_count' >= bad_request_count
       /\ good_request_count' =
             good_request_count + (IF BodyReturnedStep THEN 1 ELSE 0)
       /\ save_count' = save_count + (IF BodyReturnedStep THEN 1 ELSE 0)
       /\ bad_request_count' =
             bad_request_count + (IF RateLimitedStep THEN 1 ELSE 0)]_vars

\* 429, 429, success in the first call: success = 1, failure = 2
C21_Witness ==
    /\ calls = 1 /\ fetch_pc = "done" /\ fetch_ret.some
    /\ requests_issued = 3 /\ n429 = 2
    /\ good_request_count = 1 /\ bad_request_count = 2 /\ save_count = 1

(***************************************************************************)
(* The extractor, checked under Spec on the pages the run fetches.         *)
(***************************************************************************)
\* the step hands the body of a fetched listing page to the extractor and
\* records what it extracted as the next entry of the trace
ExtractStep ==
    /\ run_pc = "fetching" /\ fetch_pc = "done"
    /\ fetch_ret.some /\ ~Bodies[fetch_ret.text].empty
    /\ Len(trace') > Len(trace)

\* the body handed to the extractor, the ads it extracted, and the items
\* of the body that have an id
BodyIn == Bodies[fetch_ret.text]
Extracted == trace'[Len(trace) + 1].ads
ItemsWithId(b) == SelectSeq(b.items, LAMBDA it : it.id # 0)

\* C22 as stated: with the catalog directly inside the working object
\* (state, or else data), the items with an id are what is extracted.
C22_Original ==
    [][(ExtractStep /\ BodyIn.top \in {"state", "data"}
                    /\ BodyIn.catalog_at = "top")
       => Extracted = ItemsWithId(BodyIn)]_vars

\* C22, amended: the working object is the value under state (or else
\* data) and the items are read at data.catalog.items inside it: the items
\* with an id are extracted when the catalog is there, nothing otherwise.
C22_CatalogUnderData ==
    [][ExtractStep
       => /\ trace'[Len(trace) + 1].ev = "page"
          /\ Extracted =
                IF BodyIn.top \in {"state", "data"}
                   /\ BodyIn.catalog_at = "data"
                THEN ItemsWithId(BodyIn) ELSE <<>>]_vars

\* a body {state: {data: {catalog: {items: [r1, r2, r3]}}}} gave its three
\* items, and a body with an item without id gave the other two
C22_Witness ==
    /\ \E k \in 1..Len(trace) :
          trace[k].ev = "page" /\ trace[k].ads = Bodies[3].items
    /\ \E k \in 1..Len(trace) :
          trace[k].ev = "page" /\ Len(trace[k].ads) = 2
                               /\ Len(Bodies[4].items) = 3

(***************************************************************************)
(* Dedup over a run, checked under Spec.                                   *)
(***************************************************************************)
\* the (id, price) pair of an ad
PairOf(ad) == <<ad.id, ad.priceDetailed.value>>

\* C23: in one run no (id, price) pair is handed to the dedup mark or to
\* the notification more than once; the store is empty when the run
\* starts, so a pair handed over twice was already in the store the second
\* time.
C23_ExactlyOnce ==
    \A k, m \in 1..Len(trace) :
       (trace[k].ev \in {"mark", "notify"} /\ trace[m].ev = trace[k].ev)
       => \A i \in 1..Len(trace[k].ads), j \in 1..Len(trace[m].ads) :
             <<k, i>> # <<m, j>>
             => PairOf(trace[k].ads[i]) # PairOf(trace[m].ads[j])

(***************************************************************************)
(* The end of a run, checked under Spec.                                   *)
(***************************************************************************)
\* _process_url was called for the URL u
UrlHandedOver(u) ==
    \E k \in 1..Len(trace) : trace[k].ev = "url" /\ trace[k].u = u

\* C24: the completion notification is sent only in a run in which every
\* configured URL was handed to _process_url.
C24_CompletionOnlyAfterAllUrls ==
    (\E k \in 1..Len(trace) : trace[k].ev = "complete")
    => \A u \in 1..Len(config.urls) : UrlHandedOver(u)

\* C25: with export enabled and one export file per URL, a finished URL
\* that collected surviving ads has had them appended, once, to the sink of
\* that URL.
C25_PerUrlExportDelivered ==
    (config.save_xlsx /\ config.one_file_for_link)
    => \A u \in 1..Len(config.urls) :
          (u < url_index /\ AdsOf(Len(trace), u, {"collect"}) # <<>>)
          => /\ AdsOf(Len(trace), u, {"export", "export_failed"})
                   = AdsOf(Len(trace), u, {"collect"})
             /\ Cardinality({k \in 1..Len(trace) :
                               /\ trace[k].u = u
                               /\ trace[k].ev \in {"export", "export_failed"}
                               /\ trace[k].file = "link"}) = 1

====
